---- MODULE Spec2Model ----
(***************************************************************************)
(* A model of fast_video_converter.py: the scan / plan / execute / resume  *)
(* pipeline of VideoConverter.  One directory holds the video files; the   *)
(* external prober and encoder are nondeterministic environment steps.     *)
(* The process may be killed at any point and started again; each start    *)
(* loads the state file the previous process left on disk.                 *)
(***************************************************************************)
EXTENDS Integers, Sequences, FiniteSets, TLC

(* ------------------------------ bounds --------------------------------- *)

\* At most this many video files are in the directory when the first run starts.
MaxFiles == 2

\* The largest value of --workers the model tries.
MaxWorkers == 2

\* The number of process starts (runs) the model follows.
MaxRuns == 2

\* The number of encoder invocations the model follows, over all runs.
MaxEncodes == 2

(* ------------------------- program constants --------------------------- *)

TARGET_WIDTH == 176

TARGET_HEIGHT == 144

\* Line 212: an output below this size is rejected.
MIN_OUTPUT_SIZE == 1024

\* Line 20, without the leading dots.
VIDEO_EXTENSIONS ==
    {"mp4", "avi", "mkv", "mov", "wmv", "flv", "webm", "m4v", "mpeg", "mpg",
     "3gp", "ts", "vob"}

(* ------------------------------ paths ---------------------------------- *)

\* File names are <stem>.<suffix>, or temp_<stem>.<suffix> when temp is TRUE.
Stems == {"a", "A"}

Suffixes == {"mp4", "3gp", "3GP", "txt"}

SourcePaths == [temp : {FALSE}, stem : Stems, suffix : Suffixes]

TempPaths == [temp : {TRUE}, stem : Stems, suffix : {"3gp"}]

AllPaths == SourcePaths \cup TempPaths

\* The videos the directory may hold when the first run starts: two whose
\* names differ only by case, and two that differ only by extension.
InitialPaths ==
    {[temp |-> FALSE, stem |-> "a", suffix |-> "mp4"],
     [temp |-> FALSE, stem |-> "A", suffix |-> "mp4"],
     [temp |-> FALSE, stem |-> "a", suffix |-> "3gp"]}

\* str.lower() on the strings of the model.
Lower(s) ==
    CASE s = "A" -> "a"
      [] s = "MP4" -> "mp4"
      [] s = "3GP" -> "3gp"
      [] OTHER -> s

\* Line 116 / 167: state_key = str(file_path).lower()
StateKey(p) == [temp |-> p.temp, stem |-> Lower(p.stem), suffix |-> Lower(p.suffix)]

Keys == {StateKey(p) : p \in AllPaths}

\* Line 164: temp_output = parent / f"temp_{stem}.3gp"
TempOutput(p) == [temp |-> TRUE, stem |-> p.stem, suffix |-> "3gp"]

\* Line 165: final_output = parent / f"{stem}.3gp"
\* The final output named after the lower-cased stem, as if built from the
\* state key of line 167 and not from file_path.
FinalOutput_LowerStem(p) == [temp |-> FALSE, stem |-> Lower(p.stem), suffix |-> "3gp"]

FinalOutput(p) == [temp |-> FALSE, stem |-> p.stem, suffix |-> "3gp"]

(* --------------------------- file contents ----------------------------- *)

\* kind: absent | orig (a user's video) | writing (an encoder has it open)
\*       | junk (an abandoned partial output) | small (a complete output
\*       below MIN_OUTPUT_SIZE) | full (a complete encoder output).
\* by: the task whose encoder is writing the file; mixed: a second encoder
\* opened the same file while the first was still writing it.
Absent == [kind |-> "absent", w |-> 0, h |-> 0, by |-> 0, mixed |-> FALSE]

Orig(w, h) == [kind |-> "orig", w |-> w, h |-> h, by |-> 0, mixed |-> FALSE]

\* Output as it would be were the scale filter of line 176 left out of the
\* encoder's command: the output keeps a large source's resolution.
Output_Unscaled(kind) ==
    [kind |-> kind, w |-> 640, h |-> 480, by |-> 0, mixed |-> FALSE]

Output(kind) ==
    [kind |-> kind, w |-> TARGET_WIDTH, h |-> TARGET_HEIGHT, by |-> 0, mixed |-> FALSE]

Writing(i, mixed) ==
    [kind |-> "writing", w |-> TARGET_WIDTH, h |-> TARGET_HEIGHT, by |-> i, mixed |-> mixed]

\* The resolutions a user's video has in the directory the runs start from:
\* above, at and below the target.
Resolutions == {<<640, 480>>, <<176, 144>>, <<120, 90>>}

Exists(f, p) == f[p].kind # "absent"

\* The sizes stat() may report for a file.
SizesOf(c) ==
    CASE c.kind = "small" -> {512}
      [] c.kind \in {"junk", "writing"} -> {512, 2048}
      [] OTHER -> {2048}

(* ----------------------------- state map ------------------------------- *)

Statuses == {"converted", "skipped", "failed"}

\* "absent": the key is not in the dict.
EmptyMap == [k \in Keys |-> "absent"]

\* The state file: missing, corrupt (truncated or half written) or a JSON map.
NoStateFile == [kind |-> "missing", map |-> EmptyMap]

CorruptStateFile == [kind |-> "corrupt", map |-> EmptyMap]

JsonStateFile(m) == [kind |-> "json", map |-> m]

\* Lines 32-40: a missing or unreadable file loads as {}.
load_state(d) == IF d.kind = "json" THEN d.map ELSE EmptyMap

(* ------------------------------ prober --------------------------------- *)

NoResolution == [kind |-> "none", w |-> 0, h |-> 0]

\* A stream object without width/height: stream.get() gives (None, None).
NoDimensions == [kind |-> "nodims", w |-> 0, h |-> 0]

Resolution(w, h) == [kind |-> "res", w |-> w, h |-> h]

\* Lines 70-95: what get_video_resolution may return for a file.  ffprobe may
\* fail or time out on any file; an abandoned partial output may or may not
\* be readable.
get_video_resolution(c) ==
    CASE c.kind = "orig" -> {Resolution(c.w, c.h), NoResolution, NoDimensions}
      [] c.kind \in {"full", "small"} -> {Resolution(c.w, c.h), NoResolution}
      [] OTHER -> {Resolution(c.w, c.h), NoResolution}

(* ------------------------------ scanner -------------------------------- *)

\* The loop body without the resume check of lines 116-119.
ScanDecision_NoResume(st, p, r) ==
    IF Lower(p.suffix) \notin VIDEO_EXTENSIONS THEN "not_video"
    ELSE IF p.temp THEN "temp_file"
    ELSE IF r.kind = "none" THEN "no_resolution"
    ELSE IF r.kind = "nodims" THEN "type_error"
    ELSE IF Lower(p.suffix) = "3gp" /\ r.w = TARGET_WIDTH /\ r.h = TARGET_HEIGHT
         THEN "skip_3gp"
    ELSE IF r.w > TARGET_WIDTH \/ r.h > TARGET_HEIGHT THEN "queue"
    ELSE IF r.w = TARGET_WIDTH /\ r.h = TARGET_HEIGHT /\ Lower(p.suffix) # "3gp"
         THEN "queue_format"
    ELSE "skip_small"

\* The loop body with a resume check that passes over skipped entries too.
ScanDecision_SkipSkipped(st, p, r) ==
    IF Lower(p.suffix) \notin VIDEO_EXTENSIONS THEN "not_video"
    ELSE IF p.temp THEN "temp_file"
    ELSE IF st[StateKey(p)] \in {"converted", "skipped"} THEN "already_done"
    ELSE IF r.kind = "none" THEN "no_resolution"
    ELSE IF r.kind = "nodims" THEN "type_error"
    ELSE IF Lower(p.suffix) = "3gp" /\ r.w = TARGET_WIDTH /\ r.h = TARGET_HEIGHT
         THEN "skip_3gp"
    ELSE IF r.w > TARGET_WIDTH \/ r.h > TARGET_HEIGHT THEN "queue"
    ELSE IF r.w = TARGET_WIDTH /\ r.h = TARGET_HEIGHT /\ Lower(p.suffix) # "3gp"
         THEN "queue_format"
    ELSE "skip_small"

\* The loop body with "and" for the "or" of line 139.
ScanDecision_And(st, p, r) ==
    IF Lower(p.suffix) \notin VIDEO_EXTENSIONS THEN "not_video"
    ELSE IF p.temp THEN "temp_file"
    ELSE IF st[StateKey(p)] = "converted" THEN "already_done"
    ELSE IF r.kind = "none" THEN "no_resolution"
    ELSE IF r.kind = "nodims" THEN "type_error"
    ELSE IF Lower(p.suffix) = "3gp" /\ r.w = TARGET_WIDTH /\ r.h = TARGET_HEIGHT
         THEN "skip_3gp"
    ELSE IF r.w > TARGET_WIDTH /\ r.h > TARGET_HEIGHT THEN "queue"
    ELSE IF r.w = TARGET_WIDTH /\ r.h = TARGET_HEIGHT /\ Lower(p.suffix) # "3gp"
         THEN "queue_format"
    ELSE "skip_small"

\* Lines 109-149: what the loop body of scan_videos does with one file, given
\* the state map and the prober's answer.
ScanDecision(st, p, r) ==
    IF Lower(p.suffix) \notin VIDEO_EXTENSIONS THEN "not_video"
    ELSE IF p.temp THEN "temp_file"
    ELSE IF st[StateKey(p)] = "converted" THEN "already_done"
    ELSE IF r.kind = "none" THEN "no_resolution"
    ELSE IF r.kind = "nodims" THEN "type_error"
    ELSE IF Lower(p.suffix) = "3gp" /\ r.w = TARGET_WIDTH /\ r.h = TARGET_HEIGHT
         THEN "skip_3gp"
    ELSE IF r.w > TARGET_WIDTH \/ r.h > TARGET_HEIGHT THEN "queue"
    ELSE IF r.w = TARGET_WIDTH /\ r.h = TARGET_HEIGHT /\ Lower(p.suffix) # "3gp"
         THEN "queue_format"
    ELSE "skip_small"

\* Decisions reached without calling the prober.
BeforeProbe == {"not_video", "temp_file", "already_done"}

(* ------------------------------ variables ------------------------------ *)

TaskIds == 1 .. MaxFiles

\* pc: the call's position; rc: how its encoder ended; status: the first
\* component of its result; buf: the text save_state has serialized and not yet
\* flushed; src0 (history): the source file when the call began.
IdleTask ==
    [pc |-> "idle", rc |-> "none", status |-> "none", buf |-> EmptyMap, src0 |-> Absent]

\* The prober has not been called for the file.
Unprobed == [kind |-> "unprobed", w |-> 0, h |-> 0]

NoProbes == [p \in AllPaths |-> Unprobed]

VARIABLES
    fs,               \* the directory: path -> content
    disk,             \* conversion_state.json
    state,            \* self.state
    keep_originals,   \* self.keep_originals
    dry_run,          \* self.dry_run
    max_workers,      \* self.max_workers
    pc,               \* where the main thread is
    scanned,          \* the paths the rglob loop has visited
    files_to_convert, \* the worklist: a sequence of <<path, width, height>>
    task,             \* per submitted convert_video call: its position and locals
    consumed,         \* the futures as_completed has yielded
    success_count,
    error_count,
    runs,             \* the number of process starts so far
    encoderCalls,     \* history: ffmpeg invocations of this run
    encodes,          \* history: ffmpeg invocations of all runs
    probes,           \* history: what the prober answered in this run's scan
    fs0,              \* history: the directory when this run started
    disk0,            \* history: the state file when this run started
    prevRun,          \* history: how the run before this one ended, see Restart
    persisted         \* history: keys the state file has held as converted

vars ==
    <<fs, disk, state, keep_originals, dry_run, max_workers, pc, scanned,
      files_to_convert, task, consumed, success_count, error_count, runs,
      encoderCalls, encodes, probes, fs0, disk0, prevRun, persisted>>

config == <<keep_originals, dry_run, max_workers, encodes>>

PersistedConverted(d) == {k \in Keys : load_state(d)[k] = "converted"}

\* The state map this run loaded when it started.
State0 == load_state(disk0)

\* Lines 24-30 and main(): the directory holds some videos, there is no state
\* file yet, and the options are any the command line allows.
Init ==
    /\ \E present \in SUBSET InitialPaths :
         /\ Cardinality(present) <= MaxFiles
         /\ \E res \in [present -> Resolutions] :
              fs = [p \in AllPaths |->
                      IF p \in present THEN Orig(res[p][1], res[p][2]) ELSE Absent]
    /\ disk = NoStateFile
    /\ state = load_state(disk)
    /\ keep_originals \in BOOLEAN
    /\ dry_run \in BOOLEAN
    /\ max_workers \in 1 .. MaxWorkers
    /\ pc = "check_ffmpeg"
    /\ scanned = {}
    /\ files_to_convert = <<>>
    /\ task = [i \in TaskIds |-> IdleTask]
    /\ consumed = {}
    /\ success_count = 0
    /\ error_count = 0
    /\ runs = 1
    /\ encoderCalls = 0
    /\ encodes = 0
    /\ probes = NoProbes
    /\ fs0 = fs
    /\ disk0 = disk
    /\ prevRun = "none"
    /\ persisted = {}

\* Lines 50-68: without ffmpeg and ffprobe the process exits with code 1.
check_ffmpeg ==
    /\ pc = "check_ffmpeg"
    /\ \E found \in BOOLEAN : pc' = IF found THEN "scan" ELSE "exit1"
    /\ UNCHANGED <<fs, disk, state, config, scanned, files_to_convert, task,
                   consumed, success_count, error_count, runs, encoderCalls,
                   probes, fs0, disk0, prevRun, persisted>>

Listing == {p \in AllPaths : Exists(fs, p)}

\* The loop body handing each candidate to the pool as soon as it is queued,
\* while the scan is still going on.
ScanFile_Pipelined(p) ==
    /\ pc = "scan"
    /\ p \in Listing \ scanned
    /\ scanned' = scanned \cup {p}
    /\ \E r \in get_video_resolution(fs[p]) :
         LET d == ScanDecision(state, p, r) IN
         /\ d \in BeforeProbe => r = NoResolution
         /\ probes' = IF d \in BeforeProbe THEN probes ELSE [probes EXCEPT ![p] = r]
         /\ state' = IF d \in {"skip_3gp", "skip_small"}
                        THEN [state EXCEPT ![StateKey(p)] = "skipped"]
                        ELSE state
         /\ files_to_convert' =
                IF d \in {"queue", "queue_format"}
                   THEN Append(files_to_convert, <<p, r.w, r.h>>)
                   ELSE files_to_convert
         /\ task' = IF d \in {"queue", "queue_format"}
                       THEN [task EXCEPT ![Len(files_to_convert) + 1].pc = "queued"]
                       ELSE task
         /\ pc' = IF d = "type_error" THEN "scan_aborted" ELSE pc
    /\ UNCHANGED <<fs, disk, config, consumed, success_count, error_count,
                   runs, encoderCalls, fs0, disk0, prevRun, persisted>>

\* Lines 105-149: one iteration of the rglob loop, for the file p.
ScanFile(p) ==
    /\ pc = "scan"
    /\ p \in Listing \ scanned
    /\ scanned' = scanned \cup {p}
    /\ \E r \in get_video_resolution(fs[p]) :
         LET d == ScanDecision(state, p, r) IN
         /\ d \in BeforeProbe => r = NoResolution
         /\ probes' = IF d \in BeforeProbe THEN probes ELSE [probes EXCEPT ![p] = r]
         /\ state' = IF d \in {"skip_3gp", "skip_small"}
                        THEN [state EXCEPT ![StateKey(p)] = "skipped"]
                        ELSE state
         /\ files_to_convert' =
                IF d \in {"queue", "queue_format"}
                   THEN Append(files_to_convert, <<p, r.w, r.h>>)
                   ELSE files_to_convert
         /\ pc' = IF d = "type_error" THEN "scan_aborted" ELSE pc
    /\ UNCHANGED <<fs, disk, config, task, consumed, success_count, error_count,
                   runs, encoderCalls, fs0, disk0, prevRun, persisted>>

\* Lines 157 and 45: the loop is over; save_state opens the file for writing,
\* which truncates it.
ScanSaveOpen ==
    /\ pc = "scan"
    /\ Listing \subseteq scanned
    /\ disk' = CorruptStateFile
    /\ pc' = "scan_save"
    /\ UNCHANGED <<fs, state, config, scanned, files_to_convert, task, consumed,
                   success_count, error_count, runs, encoderCalls, probes, fs0,
                   disk0, prevRun, persisted>>

\* Line 46: json.dump writes the map.
ScanSaveDump ==
    /\ pc = "scan_save"
    /\ disk' = JsonStateFile(state)
    /\ persisted' = persisted \cup PersistedConverted(disk')
    /\ pc' = "after_scan"
    /\ UNCHANGED <<fs, state, config, scanned, files_to_convert, task, consumed,
                   success_count, error_count, runs, encoderCalls, probes, fs0,
                   disk0, prevRun>>

\* run() without the dry-run return of lines 260-264.
SubmitAll_NoDryRun ==
    /\ pc = "after_scan"
    /\ IF files_to_convert = <<>>
          THEN pc' = "nothing" /\ task' = task
          ELSE /\ pc' = "pool"
               /\ task' = [i \in TaskIds |->
                             IF i <= Len(files_to_convert)
                                THEN [IdleTask EXCEPT !.pc = "queued"]
                                ELSE IdleTask]
    /\ UNCHANGED <<fs, disk, state, config, scanned, files_to_convert, consumed,
                   success_count, error_count, runs, encoderCalls, probes, fs0,
                   disk0, prevRun, persisted>>

\* Lines 254-276: nothing to do, or a dry run, or every candidate is submitted
\* to the pool.
SubmitAll ==
    /\ pc = "after_scan"
    /\ IF files_to_convert = <<>>
          THEN pc' = "nothing" /\ task' = task
          ELSE IF dry_run
          THEN pc' = "dry_done" /\ task' = task
          ELSE /\ pc' = "pool"
               /\ task' = [i \in TaskIds |->
                             IF i <= Len(files_to_convert)
                                THEN [IdleTask EXCEPT !.pc = "queued"]
                                ELSE IdleTask]
    /\ UNCHANGED <<fs, disk, state, config, scanned, files_to_convert, consumed,
                   success_count, error_count, runs, encoderCalls, probes, fs0,
                   disk0, prevRun, persisted>>

(* --------------------------- convert_video ----------------------------- *)

SourceOf(i) == files_to_convert[i][1]

Submitted == 1 .. Len(files_to_convert)

Finished(i) == task[i].pc \in {"returned", "raised"}

Running(i) == task[i].pc \notin {"idle", "queued", "returned", "raised"}

\* What the main thread, the scanner's locals and the run's history keep
\* while a worker thread takes a step.
WorkerFrame ==
    UNCHANGED <<keep_originals, dry_run, max_workers, pc, scanned, files_to_convert,
                consumed, success_count, error_count, runs, probes, fs0, disk0,
                prevRun>>

\* The text json.dump(indent=2) writes for a map has one line per key; the
\* keys of the model are equally long, the status strings are not.
StatusLen(s) ==
    CASE s = "converted" -> 9
      [] s = "skipped" -> 7
      [] s = "failed" -> 6
      [] OTHER -> 0

RECURSIVE SumLen(_, _)
SumLen(m, ks) ==
    IF ks = {} THEN 0
    ELSE LET k == CHOOSE x \in ks : TRUE
         IN (IF m[k] = "absent" THEN 0 ELSE 20 + StatusLen(m[k])) + SumLen(m, ks \ {k})

JsonLen(m) == 2 + SumLen(m, Keys)

\* Closing a file opened with 'w' flushes the buffered text at offset 0 of
\* whatever the file holds by then: another writer's longer text keeps its tail.
Flush(d, buf) ==
    IF d.kind = "json" /\ JsonLen(d.map) > JsonLen(buf)
       THEN CorruptStateFile
       ELSE JsonStateFile(buf)

\* A pool that starts every submitted call at once, whatever max_workers is
\* (line 274 without its argument's effect).
StartEncode_Unbounded(i) ==
    /\ pc \in {"pool", "unwinding"}
    /\ i \in Submitted
    /\ task[i].pc = "queued"
    /\ LET src == SourceOf(i)
           tmp == TempOutput(src)
       IN \E creates \in BOOLEAN :
            /\ ~Exists(fs, src) => ~creates
            /\ fs' = IF creates
                        THEN [fs EXCEPT ![tmp] = Writing(i, fs[tmp].kind = "writing")]
                        ELSE fs
            /\ task' = [task EXCEPT ![i].pc = "encoding", ![i].src0 = fs[src]]
    /\ encodes < MaxEncodes
    /\ encoderCalls' = encoderCalls + 1
    /\ encodes' = encodes + 1
    /\ UNCHANGED <<disk, state, persisted>>
    /\ WorkerFrame

\* Lines 160-200: a pool thread takes the next submitted call; convert_video
\* computes its paths and starts ffmpeg, which opens (and with -y truncates) the
\* temp output unless it fails before that.
StartEncode(i) ==
    /\ pc \in {"pool", "unwinding"}
    /\ i \in Submitted
    /\ task[i].pc = "queued"
    /\ \A j \in Submitted : j < i => task[j].pc # "queued"
    /\ Cardinality({j \in Submitted : Running(j)}) < max_workers
    /\ LET src == SourceOf(i)
           tmp == TempOutput(src)
       IN \E creates \in BOOLEAN :
            /\ ~Exists(fs, src) => ~creates
            /\ fs' = IF creates
                        THEN [fs EXCEPT ![tmp] = Writing(i, fs[tmp].kind = "writing")]
                        ELSE fs
            /\ task' = [task EXCEPT ![i].pc = "encoding", ![i].src0 = fs[src]]
    /\ encodes < MaxEncodes
    /\ encoderCalls' = encoderCalls + 1
    /\ encodes' = encodes + 1
    /\ UNCHANGED <<disk, state, persisted>>
    /\ WorkerFrame

\* Lines 193-205: ffmpeg ends (exit code 0, nonzero, or killed by the 300 s
\* timeout) and leaves the file it was writing complete, undersized or partial.
EncodeEnd(i) ==
    /\ task[i].pc = "encoding"
    /\ \E rc \in {"zero", "nonzero", "timeout"}, out \in {"full", "small", "junk"} :
         LET mine == {p \in AllPaths : fs[p].kind = "writing" /\ fs[p].by = i} IN
         /\ task[i].src0.kind = "absent" => rc = "nonzero"
         /\ rc # "zero" => out = "junk"
         /\ (rc = "zero" /\ out = "junk") => \E p \in mine : fs[p].mixed
         /\ fs' = [p \in AllPaths |-> IF p \in mine THEN Output(out) ELSE fs[p]]
         /\ task' = [task EXCEPT ![i].rc = rc,
                                 ![i].pc = IF rc = "zero" THEN "validate" ELSE "except"]
    /\ UNCHANGED <<disk, state, encoderCalls, encodes, persisted>>
    /\ WorkerFrame

\* Lines 207-213: the temp output must exist and hold at least 1024 bytes.
Validate(i) ==
    /\ task[i].pc = "validate"
    /\ LET tmp == TempOutput(SourceOf(i)) IN
       \E sz \in SizesOf(fs[tmp]) :
         task' = [task EXCEPT ![i].pc =
                    IF ~Exists(fs, tmp) \/ sz < MIN_OUTPUT_SIZE
                       THEN "except" ELSE "final_check"]
    /\ UNCHANGED <<fs, disk, state, encoderCalls, encodes, persisted>>
    /\ WorkerFrame

\* Line 216: if final_output.exists()
FinalCheck(i) ==
    /\ task[i].pc = "final_check"
    /\ task' = [task EXCEPT ![i].pc =
                  IF Exists(fs, FinalOutput(SourceOf(i))) THEN "final_unlink" ELSE "rename"]
    /\ UNCHANGED <<fs, disk, state, encoderCalls, encodes, persisted>>
    /\ WorkerFrame

\* Line 217: final_output.unlink(); it raises if the file is gone by now.
FinalUnlink(i) ==
    /\ task[i].pc = "final_unlink"
    /\ LET fin == FinalOutput(SourceOf(i)) IN
         IF ~Exists(fs, fin)
            THEN fs' = fs /\ task' = [task EXCEPT ![i].pc = "except"]
            ELSE /\ fs' = [fs EXCEPT ![fin] = Absent]
                 /\ task' = [task EXCEPT ![i].pc = "rename"]
    /\ UNCHANGED <<disk, state, encoderCalls, encodes, persisted>>
    /\ WorkerFrame

\* Line 219: temp_output.rename(final_output); it raises if the temp output is
\* gone by now or the system refuses (fault).
Rename(i) ==
    /\ task[i].pc = "rename"
    /\ LET src == SourceOf(i)
           tmp == TempOutput(src)
           fin == FinalOutput(src)
       IN \E fault \in BOOLEAN :
            IF ~Exists(fs, tmp) \/ fault
               THEN fs' = fs /\ task' = [task EXCEPT ![i].pc = "except"]
               ELSE /\ fs' = [fs EXCEPT ![fin] = fs[tmp], ![tmp] = Absent]
                    /\ task' = [task EXCEPT ![i].pc = "stat"]
    /\ UNCHANGED <<disk, state, encoderCalls, encodes, persisted>>
    /\ WorkerFrame

\* Lines 222-227: both files are stat()ed for the savings figure.
StatSizes(i) ==
    /\ task[i].pc = "stat"
    /\ LET src == SourceOf(i) IN
       task' = [task EXCEPT ![i].pc =
                  IF ~Exists(fs, src) \/ ~Exists(fs, FinalOutput(src)) THEN "except"
                  ELSE IF keep_originals THEN "mark_converted"
                  ELSE "unlink_original"]
    /\ UNCHANGED <<fs, disk, state, encoderCalls, encodes, persisted>>
    /\ WorkerFrame

\* Line 228: file_path.unlink(); it raises if the file is gone by now.
UnlinkOriginal(i) ==
    /\ task[i].pc = "unlink_original"
    /\ LET src == SourceOf(i) IN
         IF ~Exists(fs, src)
            THEN fs' = fs /\ task' = [task EXCEPT ![i].pc = "except"]
            ELSE /\ fs' = [fs EXCEPT ![src] = Absent]
                 /\ task' = [task EXCEPT ![i].pc = "mark_converted"]
    /\ UNCHANGED <<disk, state, encoderCalls, encodes, persisted>>
    /\ WorkerFrame

\* Line 233: self.state[state_key] = 'converted'
MarkConverted(i) ==
    /\ task[i].pc = "mark_converted"
    /\ state' = [state EXCEPT ![StateKey(SourceOf(i))] = "converted"]
    /\ task' = [task EXCEPT ![i].pc = "save_open", ![i].status = "success"]
    /\ UNCHANGED <<fs, disk, encoderCalls, encodes, persisted>>
    /\ WorkerFrame

\* Line 240: the handler looks for the temp output.
CleanupCheck(i) ==
    /\ task[i].pc = "except"
    /\ task' = [task EXCEPT ![i].pc =
                  IF Exists(fs, TempOutput(SourceOf(i))) THEN "cleanup_unlink"
                  ELSE "mark_failed"]
    /\ UNCHANGED <<fs, disk, state, encoderCalls, encodes, persisted>>
    /\ WorkerFrame

\* Line 241: temp_output.unlink(), inside the handler: an exception here (the
\* file is gone by now, or the system refuses) leaves convert_video.
CleanupUnlink(i) ==
    /\ task[i].pc = "cleanup_unlink"
    /\ LET tmp == TempOutput(SourceOf(i)) IN
       \E fault \in BOOLEAN :
         IF ~Exists(fs, tmp) \/ fault
            THEN fs' = fs /\ task' = [task EXCEPT ![i].pc = "raised"]
            ELSE /\ fs' = [fs EXCEPT ![tmp] = Absent]
                 /\ task' = [task EXCEPT ![i].pc = "mark_failed"]
    /\ UNCHANGED <<disk, state, encoderCalls, encodes, persisted>>
    /\ WorkerFrame

\* Line 243: self.state[state_key] = 'failed'
MarkFailed(i) ==
    /\ task[i].pc = "mark_failed"
    /\ state' = [state EXCEPT ![StateKey(SourceOf(i))] = "failed"]
    /\ task' = [task EXCEPT ![i].pc = "save_open", ![i].status = "error"]
    /\ UNCHANGED <<fs, disk, encoderCalls, encodes, persisted>>
    /\ WorkerFrame

\* Lines 234/244 -> 45: open(state_file, 'w') truncates the file.
SaveOpen(i) ==
    /\ task[i].pc = "save_open"
    /\ disk' = CorruptStateFile
    /\ task' = [task EXCEPT ![i].pc = "save_dump"]
    /\ UNCHANGED <<fs, state, encoderCalls, encodes, persisted>>
    /\ WorkerFrame

\* Line 46: json.dump serializes the map as it is now into the file's buffer.
SaveDump(i) ==
    /\ task[i].pc = "save_dump"
    /\ task' = [task EXCEPT ![i].pc = "save_close", ![i].buf = state]
    /\ UNCHANGED <<fs, disk, state, encoderCalls, encodes, persisted>>
    /\ WorkerFrame

\* Leaving the with block closes the file, which writes the buffer; then
\* convert_video returns its result (lines 236 / 246).
SaveClose(i) ==
    /\ task[i].pc = "save_close"
    /\ disk' = Flush(disk, task[i].buf)
    /\ persisted' = persisted \cup PersistedConverted(disk')
    /\ task' = [task EXCEPT ![i].pc = "returned", ![i].buf = EmptyMap]
    /\ UNCHANGED <<fs, state, encoderCalls, encodes>>
    /\ WorkerFrame

(* ------------------------------ scheduler ------------------------------ *)

\* Lines 278-286: as_completed yields a finished future; result() re-raises
\* what the call raised.
Collect(i) ==
    /\ pc = "pool"
    /\ i \in Submitted \ consumed
    /\ Finished(i)
    /\ consumed' = consumed \cup {i}
    /\ IF task[i].pc = "raised"
          THEN pc' = "unwinding" /\ UNCHANGED <<success_count, error_count>>
          ELSE /\ pc' = pc
               /\ success_count' = success_count + (IF task[i].status = "success" THEN 1 ELSE 0)
               /\ error_count' = error_count + (IF task[i].status = "success" THEN 0 ELSE 1)
    /\ UNCHANGED <<fs, disk, state, config, scanned, files_to_convert, task, runs,
                   encoderCalls, probes, fs0, disk0, prevRun, persisted>>

\* Lines 288-299: every future has been collected; the summary is printed.
Summary ==
    /\ pc = "pool"
    /\ consumed = Submitted
    /\ pc' = "done"
    /\ UNCHANGED <<fs, disk, state, config, scanned, files_to_convert, task,
                   consumed, success_count, error_count, runs, encoderCalls,
                   probes, fs0, disk0, prevRun, persisted>>

\* Line 274: the exception leaves the with block, whose exit waits for the
\* pool's remaining calls; then it leaves run() and the process ends.
Abort ==
    /\ pc = "unwinding"
    /\ \A i \in Submitted : Finished(i)
    /\ pc' = "aborted"
    /\ UNCHANGED <<fs, disk, state, config, scanned, files_to_convert, task,
                   consumed, success_count, error_count, runs, encoderCalls,
                   probes, fs0, disk0, prevRun, persisted>>

(* ------------------------- process end and start ----------------------- *)

Ended == {"done", "nothing", "dry_done", "aborted", "scan_aborted", "exit1", "crashed"}

\* The process is killed.  Its memory is gone; encoders die with it and leave
\* what they had written.
Crash ==
    /\ pc \notin Ended
    /\ pc' = "crashed"
    /\ fs' = [p \in AllPaths |-> IF fs[p].kind = "writing" THEN Output("junk") ELSE fs[p]]
    /\ state' = EmptyMap
    /\ scanned' = {}
    /\ files_to_convert' = <<>>
    /\ task' = [i \in TaskIds |-> IdleTask]
    /\ consumed' = {}
    /\ success_count' = 0
    /\ error_count' = 0
    /\ encoderCalls' = 0
    /\ probes' = NoProbes
    /\ UNCHANGED <<disk, config, runs, fs0, disk0, prevRun, persisted>>

\* The video files the scan of this run looked at (lines 109-113).
ScannedVideos == {p \in scanned : Lower(p.suffix) \in VIDEO_EXTENSIONS /\ ~p.temp}

\* Whether the run that is ending ran to its end and left, in the state file,
\* every video it scanned as converted or skipped.
EndedClean ==
    /\ pc \in {"done", "nothing"}
    /\ \A p \in ScannedVideos :
         load_state(disk)[StateKey(p)] \in {"converted", "skipped"}

\* Whether, besides, every skipped entry the state file holds for a video the
\* run scanned comes from the scan's decision on that very file (lines 132-136
\* and 146-149), and not from another file with the same key.
EveryVideoClassified ==
    \A p \in ScannedVideos :
        load_state(disk)[StateKey(p)] = "skipped" =>
            /\ probes[p].kind = "res"
            /\ ScanDecision(State0, p, probes[p]) \in {"skip_3gp", "skip_small"}

\* The program is started again with the same options on the directory and the
\* state file as they are (lines 24-30).
Restart ==
    /\ pc \in Ended
    /\ runs < MaxRuns
    /\ runs' = runs + 1
    /\ prevRun' = IF ~EndedClean THEN "unclean"
                  ELSE IF EveryVideoClassified THEN "classified"
                  ELSE "clean"
    /\ state' = load_state(disk)
    /\ pc' = "check_ffmpeg"
    /\ scanned' = {}
    /\ files_to_convert' = <<>>
    /\ task' = [i \in TaskIds |-> IdleTask]
    /\ consumed' = {}
    /\ success_count' = 0
    /\ error_count' = 0
    /\ encoderCalls' = 0
    /\ probes' = NoProbes
    /\ fs0' = fs
    /\ disk0' = disk
    /\ UNCHANGED <<fs, disk, config, persisted>>

Next ==
    \/ check_ffmpeg
    \/ \E p \in AllPaths : ScanFile(p)
    \/ ScanSaveOpen
    \/ ScanSaveDump
    \/ SubmitAll
    \/ \E i \in TaskIds : StartEncode(i)
    \/ \E i \in TaskIds : EncodeEnd(i)
    \/ \E i \in TaskIds : Validate(i)
    \/ \E i \in TaskIds : FinalCheck(i)
    \/ \E i \in TaskIds : FinalUnlink(i)
    \/ \E i \in TaskIds : Rename(i)
    \/ \E i \in TaskIds : StatSizes(i)
    \/ \E i \in TaskIds : UnlinkOriginal(i)
    \/ \E i \in TaskIds : MarkConverted(i)
    \/ \E i \in TaskIds : CleanupCheck(i)
    \/ \E i \in TaskIds : CleanupUnlink(i)
    \/ \E i \in TaskIds : MarkFailed(i)
    \/ \E i \in TaskIds : SaveOpen(i)
    \/ \E i \in TaskIds : SaveDump(i)
    \/ \E i \in TaskIds : SaveClose(i)
    \/ \E i \in TaskIds : Collect(i)
    \/ Summary
    \/ Abort
    \/ Crash
    \/ Restart

Spec == Init /\ [][Next]_vars

(* ----------------------- the scan on its own --------------------------- *)

\* The files a directory may hold when a scan starts: videos in and out of
\* the target container, an upper-case extension, a file that is no video and
\* a temp output an earlier run left behind.
ScanPaths ==
    {[temp |-> FALSE, stem |-> "a", suffix |-> "mp4"],
     [temp |-> FALSE, stem |-> "A", suffix |-> "mp4"],
     [temp |-> FALSE, stem |-> "a", suffix |-> "3gp"],
     [temp |-> FALSE, stem |-> "a", suffix |-> "3GP"],
     [temp |-> FALSE, stem |-> "a", suffix |-> "txt"],
     [temp |-> TRUE, stem |-> "a", suffix |-> "3gp"]}

ScanWidths == {120, 176, 640}

ScanHeights == {90, 144, 480}

\* A run starts on a directory of any such files, with a state file earlier
\* runs left: any status, or none, for each file's key.
InitScan ==
    /\ \E present \in SUBSET ScanPaths :
         /\ Cardinality(present) <= MaxFiles
         /\ \E w \in [present -> ScanWidths], h \in [present -> ScanHeights] :
              fs = [p \in AllPaths |->
                      IF p \in present THEN Orig(w[p], h[p]) ELSE Absent]
         /\ \E m \in [{StateKey(p) : p \in present} -> Statuses \cup {"absent"}] :
              disk = JsonStateFile([k \in Keys |-> IF k \in DOMAIN m THEN m[k] ELSE "absent"])
    /\ state = load_state(disk)
    /\ keep_originals = FALSE
    /\ dry_run \in BOOLEAN
    /\ max_workers = 1
    /\ pc = "check_ffmpeg"
    /\ scanned = {}
    /\ files_to_convert = <<>>
    /\ task = [i \in TaskIds |-> IdleTask]
    /\ consumed = {}
    /\ success_count = 0
    /\ error_count = 0
    /\ runs = 1
    /\ encoderCalls = 0
    /\ encodes = 0
    /\ probes = NoProbes
    /\ fs0 = fs
    /\ disk0 = disk
    /\ prevRun = "none"
    /\ persisted = PersistedConverted(disk)

NextScan ==
    \/ check_ffmpeg
    \/ \E p \in AllPaths : ScanFile(p)
    \/ ScanSaveOpen
    \/ ScanSaveDump
    \/ SubmitAll

SpecScan == InitScan /\ [][NextScan]_vars

(* ------------------------------- claims -------------------------------- *)

InWorklist(p) == \E j \in 1 .. Len(files_to_convert) : files_to_convert[j][1] = p

IsTargetContainer(p) == Lower(p.suffix) = "3gp"

\* The files the claims call in need of conversion: wider or taller than the
\* target, or at the target resolution in another container.
NeedsConversion(p, r) ==
    \/ r.w > TARGET_WIDTH
    \/ r.h > TARGET_HEIGHT
    \/ (r.w = TARGET_WIDTH /\ r.h = TARGET_HEIGHT /\ ~IsTargetContainer(p))

\* The call i returns in this step.
Returns(i) == task[i].pc # "returned" /\ task'[i].pc = "returned"

\* C1 (as claimed): when the run before this one ran to its end and left every
\* video it scanned as converted or skipped in the state file, this run queues
\* nothing and never starts the encoder.
C1_Idempotent ==
    prevRun \in {"clean", "classified"} =>
        /\ files_to_convert = <<>>
        /\ encoderCalls = 0
        /\ \A i \in TaskIds : task[i].pc = "idle"

\* C1 (amended): when the run before this one ran to its end and left every
\* video it scanned as converted in the state file, or as skipped there by its
\* scan's own decision on that file, this run queues nothing and never starts
\* the encoder.
C1_IdempotentWhenClassified ==
    prevRun = "classified" =>
        /\ files_to_convert = <<>>
        /\ encoderCalls = 0
        /\ \A i \in TaskIds : task[i].pc = "idle"

\* A second run has ended with nothing to do, after a run that converted a file.
C1_Witness ==
    /\ prevRun = "classified"
    /\ runs = 2
    /\ pc = "nothing"
    /\ ScannedVideos # {}
    /\ \E k \in Keys : State0[k] = "converted"

\* C2 (as claimed): with keep_originals, when convert_video returns, the source
\* file is there with the content it had when the call began.
C2_OriginalKept ==
    [][\A i \in TaskIds :
         (Returns(i) /\ keep_originals) =>
             /\ task[i].src0.kind = "orig"
             /\ fs'[SourceOf(i)] = task[i].src0]_vars

\* C3 (as claimed): when the encoder exited nonzero and convert_video returns,
\* the source is unchanged and present, the temp output is gone, the state
\* entry is failed and the result is an error.
C3_EncoderFailure ==
    [][\A i \in TaskIds :
         (Returns(i) /\ task[i].rc = "nonzero") =>
             /\ Exists(fs', SourceOf(i))
             /\ fs'[SourceOf(i)] = task[i].src0
             /\ ~Exists(fs', TempOutput(SourceOf(i)))
             /\ state'[StateKey(SourceOf(i))] = "failed"
             /\ task'[i].status = "error"]_vars

\* C4 (as claimed): when convert_video returns success and the state entry is
\* converted, a complete converted file is at the final output path.
C4_OutputExists ==
    [][\A i \in TaskIds :
         (/\ Returns(i)
          /\ task'[i].status = "success"
          /\ state'[StateKey(SourceOf(i))] = "converted") =>
             fs'[FinalOutput(SourceOf(i))] = Output("full")]_vars

\* C5: a file whose key the loaded state holds as converted is passed over by
\* the scan: not probed, not queued.
C5_ConvertedNeverRequeued ==
    \A p \in scanned :
        State0[StateKey(p)] = "converted" =>
            /\ ~InWorklist(p)
            /\ probes[p] = Unprobed

\* The scan is over and has passed over a large video marked converted.
C5_Witness ==
    /\ pc = "after_scan"
    /\ \E p \in ScannedVideos :
         /\ State0[StateKey(p)] = "converted"
         /\ fs[p].w > TARGET_WIDTH
         /\ ~InWorklist(p)

\* C6 (as claimed): while the process lives, the state file lacks at most one
\* mutation of the in-memory map.
C6_AtMostOneLost ==
    pc \notin Ended =>
        Cardinality({k \in Keys : state[k] # load_state(disk)[k]}) <= 1

\* C7 (as claimed): a key the state file has once held as converted is
\* converted in the state a run started after a kill loads.
C7_ConvertedNeverLost ==
    pc = "crashed" => \A k \in persisted : load_state(disk)[k] = "converted"

\* C8: a probed file is queued, with the resolution probed, exactly when it
\* needs conversion, and is marked skipped and not queued otherwise.
C8_Classification ==
    \A p \in AllPaths :
        probes[p].kind = "res" =>
            LET k == StateKey(p)
                q == NeedsConversion(p, probes[p])
                marked == \E p2 \in scanned :
                            /\ StateKey(p2) = k
                            /\ probes[p2].kind = "res"
                            /\ ~NeedsConversion(p2, probes[p2])
            IN /\ InWorklist(p) <=> q
               /\ ~q => state[k] = "skipped"
               /\ (q /\ ~marked) => state[k] = State0[k]
               /\ \A j \in 1 .. Len(files_to_convert) :
                    files_to_convert[j][1] = p =>
                        /\ files_to_convert[j] = <<p, probes[p].w, probes[p].h>>
                        /\ \A j2 \in 1 .. Len(files_to_convert) :
                             files_to_convert[j2][1] = p => j2 = j

\* One scan has queued a video that is only taller than the target and has
\* marked a smaller video skipped.
C8_Witness ==
    \E p, p2 \in ScannedVideos :
        /\ probes[p].kind = "res"
        /\ probes[p].w <= TARGET_WIDTH
        /\ probes[p].h > TARGET_HEIGHT
        /\ InWorklist(p)
        /\ probes[p2].kind = "res"
        /\ probes[p2].w < TARGET_WIDTH
        /\ probes[p2].h < TARGET_HEIGHT
        /\ ~InWorklist(p2)
        /\ state[StateKey(p2)] = "skipped"
        /\ State0[StateKey(p2)] # "skipped"

\* C9: a dry run leaves the directory as it was, starts no convert_video call
\* and no encoder, sets no state entry to converted or failed, persists the
\* scan's skipped markings, and ends with the worklist the prober's answers
\* call for.
C9_DryRun ==
    dry_run =>
        /\ fs = fs0
        /\ encoderCalls = 0
        /\ \A i \in TaskIds : task[i].pc = "idle"
        /\ pc # "crashed" => \A k \in Keys : state[k] # State0[k] => state[k] = "skipped"
        /\ \A k \in Keys : load_state(disk)[k] \in {"converted", "failed"} =>
                              load_state(disk)[k] = State0[k]
        /\ pc \in {"after_scan", "dry_done", "nothing"} => disk = JsonStateFile(state)
        /\ pc = "dry_done" =>
             \A p \in AllPaths :
                 InWorklist(p) <=>
                     (probes[p].kind = "res" /\ NeedsConversion(p, probes[p]))

\* A dry run has ended with one file queued and another marked skipped on disk.
C9_Witness ==
    /\ dry_run
    /\ pc = "dry_done"
    /\ Len(files_to_convert) >= 1
    /\ \E k \in Keys : load_state(disk)[k] = "skipped" /\ State0[k] = "absent"
    /\ fs = fs0

\* C10 (as claimed): no convert_video call ends without a terminal state
\* entry, the run ends in its summary, and the summary's counts add up to the
\* length of the worklist.
C10_BatchCompletes ==
    /\ pc # "aborted"
    /\ \A i \in TaskIds : task[i].pc # "raised"
    /\ pc = "done" =>
         /\ success_count + error_count = Len(files_to_convert)
         /\ \A i \in Submitted :
              state[StateKey(SourceOf(i))] \in {"converted", "failed"}

\* The calls of convert_video in progress.
InProgress == {i \in Submitted : Running(i)}

\* C11: at most max_workers calls of convert_video are in progress.
C11_PoolBound == Cardinality(InProgress) <= max_workers

\* With one worker and two candidates, one call is in progress and the other
\* waits in the pool's queue.
C11_Witness ==
    /\ max_workers = 1
    /\ Len(files_to_convert) = 2
    /\ \E i, j \in Submitted : task[i].pc = "encoding" /\ task[j].pc = "queued"

\* The calls between setting their key in the map and the end of their save.
InStateStore == {i \in Submitted : task[i].pc \in {"save_open", "save_dump", "save_close"}}

\* C12 (as claimed): at most one worker at a time is between setting its key
\* and the end of its save of the map.
C12_SingleWriter == Cardinality(InStateStore) <= 1

\* The paths the call for the candidate p reads, writes, renames or deletes.
PathsOf(p) == {p, TempOutput(p), FinalOutput(p)}

\* C13 (as claimed): no two candidates of a worklist share a source, temp
\* output or final output path.
C13_DisjointFiles ==
    \A i, j \in Submitted :
        i # j => PathsOf(SourceOf(i)) \cap PathsOf(SourceOf(j)) = {}

\* C14 (as claimed): while a call has not yet renamed its temp output, the
\* source it began with is still there.
C14_SourceUntilRename ==
    \A i \in Submitted :
        (/\ task[i].pc \in {"encoding", "validate", "final_check", "final_unlink", "rename"}
         /\ task[i].src0.kind = "orig") =>
            fs[SourceOf(i)] = task[i].src0

\* C15 (as claimed): a path without the temp prefix holds nothing, a file that
\* was there before the conversion, or a complete validated encoder output.
C15_FinalNeverPartial ==
    \A p \in SourcePaths : fs[p].kind \in {"absent", "orig", "full"}
\* C16 (as claimed): a scan never queues a file whose loaded entry is converted
\* or skipped, and probes a file whose entry is failed and queues it exactly
\* when it needs conversion.
C16_SkippedSuppresses ==
    \A p \in ScannedVideos :
        /\ State0[StateKey(p)] \in {"converted", "skipped"} => ~InWorklist(p)
        /\ State0[StateKey(p)] = "failed" =>
              /\ probes[p] # Unprobed
              /\ InWorklist(p) <=>
                    (probes[p].kind = "res" /\ NeedsConversion(p, probes[p]))

\* C16 (amended): only a converted entry suppresses; a file whose loaded entry
\* is skipped or failed, or that has none, is probed and is queued exactly when
\* the probed resolution needs conversion.
C16_OnlyConvertedSuppresses ==
    \A p \in ScannedVideos :
        /\ State0[StateKey(p)] = "converted" =>
              /\ probes[p] = Unprobed
              /\ ~InWorklist(p)
        /\ State0[StateKey(p)] # "converted" =>
              /\ probes[p] # Unprobed
              /\ InWorklist(p) <=>
                    (probes[p].kind = "res" /\ NeedsConversion(p, probes[p]))

\* A scan has queued a large file whose loaded entry was skipped and a large
\* file whose loaded entry was failed.
C16_Witness ==
    /\ pc = "after_scan"
    /\ \E p, p2 \in ScannedVideos :
         /\ State0[StateKey(p)] = "skipped"
         /\ probes[p].kind = "res"
         /\ InWorklist(p)
         /\ State0[StateKey(p2)] = "failed"
         /\ InWorklist(p2)

\* C17 (as claimed): when the prober gives no resolution for a file, the scan
\* goes on, does not queue the file and records no status for it.
C17_ProbeFailureSkipped ==
    /\ pc # "scan_aborted"
    /\ \A p \in AllPaths :
         probes[p].kind \in {"none", "nodims"} =>
             /\ ~InWorklist(p)
             /\ \/ state[StateKey(p)] = State0[StateKey(p)]
                \/ \E p2 \in scanned \ {p} :
                      StateKey(p2) = StateKey(p) /\ probes[p2].kind = "res"
\* C18: a call of convert_video is submitted or running only once the main
\* thread is past the scan and the scan has visited every file of the
\* directory; until the first call sets its status, the state file holds the
\* map the scan saved.
C18_ScanBeforeConversions ==
    (\E i \in TaskIds : task[i].pc # "idle") =>
        /\ pc \in {"pool", "unwinding", "done", "aborted"}
        /\ \A p \in AllPaths : Exists(fs0, p) => p \in scanned
        /\ (\A i \in TaskIds :
               task[i].pc \notin {"save_open", "save_dump", "save_close", "returned"}) =>
              disk = JsonStateFile(state)

\* An encoder is running after a scan of two files that marked one skipped and
\* saved it.
C18_Witness ==
    /\ pc = "pool"
    /\ Cardinality(scanned) = 2
    /\ \E i \in Submitted : task[i].pc = "encoding"
    /\ \E k \in Keys : load_state(disk)[k] = "skipped" /\ State0[k] = "absent"

\* C19 (as claimed): when every call has finished and the summary is printed,
\* the state file is a well-formed map equal to the in-memory map and holds a
\* terminal status for every candidate.
C19_NoLostUpdate ==
    pc = "done" =>
        /\ disk = JsonStateFile(state)
        /\ \A i \in Submitted :
             load_state(disk)[StateKey(SourceOf(i))] \in {"converted", "failed"}

\* The scan of this run classified p as skipped, or passed it over as
\* already converted.
SkippedOrPassedOver(p) ==
    /\ p \in ScannedVideos
    /\ ~InWorklist(p)
    /\ probes[p].kind = "res" \/ State0[StateKey(p)] = "converted"

\* The name the claims give a candidate's final output: same directory, same
\* stem, target container extension.
TargetNameOf(p) == [temp |-> FALSE, stem |-> p.stem, suffix |-> "3gp"]

\* C20 (as claimed): a file the scan skipped or passed over is as it was when
\* the run started.
C20_SkippedUntouched ==
    \A p \in AllPaths : SkippedOrPassedOver(p) => fs[p] = fs0[p]

\* C20 (amended): a file the scan skipped or passed over is as it was when the
\* run started, unless it sits at the final output name of a queued candidate.
C20_SkippedUntouchedUnlessTarget ==
    \A p \in AllPaths :
        (/\ SkippedOrPassedOver(p)
         /\ \A j \in Submitted : TargetNameOf(SourceOf(j)) # p) =>
            fs[p] = fs0[p]

\* A run has ended after converting one file and skipping another, which is
\* still there as it was.
C20_Witness ==
    /\ pc = "done"
    /\ success_count = 1
    /\ \E p \in AllPaths :
         /\ SkippedOrPassedOver(p)
         /\ fs[p].kind = "orig"
         /\ fs[p] = fs0[p]
    /\ fs # fs0
====
